---- MODULE Spec2Model ----
(***************************************************************************)
(* Bulk e-mail merge sender (app.py, utils.py, email_sender.py,            *)
(* gmail_sender.py).                                                       *)
(*                                                                         *)
(* Strings are modelled as tuples of one-character strings, so that the    *)
(* regular expression of the validator, strip() and split() are computed   *)
(* on the characters.  A missing pandas value (NaN) is the one-element     *)
(* tuple <<"NaN">>, whose element is not a character.                      *)
(***************************************************************************)
EXTENDS Integers, Sequences, FiniteSets, TLC

(***************************************************************************)
(* Bounds of the model.                                                    *)
(***************************************************************************)
MaxRows == 3        \* rows of an uploaded table
MaxPieces == 4      \* tokens and separators of an uploaded text file
MaxLog == 3         \* entries kept in send_logs before it must be cleared
MaxStr == 7         \* characters of a string handed to the email validators
MaxTpl == 3         \* pieces of a body template

(***************************************************************************)
(* Characters and strings.                                                 *)
(***************************************************************************)
Letters == {"a", "b", "c", "d", "x", "A", "B", "E", "M", "N", "e", "i", "l", "m", "n", "o"}
Digits == {"1"}
LocalChars == Letters \cup Digits \cup {".", "_", "%", "+", "-"}
DomainChars == Letters \cup Digits \cup {".", "-"}
Whitespace == {" ", "\n", "\t", "\r"}

NaN == <<"NaN">>
EmptyStr == <<>>

isna(v) == v = NaN

\* str.strip(): remove leading and trailing whitespace.
RECURSIVE lstrip(_)
lstrip(s) == IF s # <<>> /\ Head(s) \in Whitespace THEN lstrip(Tail(s)) ELSE s

RECURSIVE rstrip(_)
rstrip(s) ==
    IF s # <<>> /\ s[Len(s)] \in Whitespace THEN rstrip(SubSeq(s, 1, Len(s) - 1)) ELSE s

strip(s) == rstrip(lstrip(s))

AllIn(s, lo, hi, chars) == \A k \in lo..hi : s[k] \in chars

\* The pattern ^[a-zA-Z0-9._%+-]+@[a-zA-Z0-9.-]+\.[a-zA-Z]{2,} followed by
\* the end of the string: at position i the "@", at position j the "\.".
PatternToEnd(s) ==
    \E i \in 2..Len(s) : \E j \in (i + 2)..(Len(s) - 2) :
        /\ s[i] = "@"
        /\ s[j] = "."
        /\ AllIn(s, 1, i - 1, LocalChars)
        /\ AllIn(s, i + 1, j - 1, DomainChars)
        /\ AllIn(s, j + 1, Len(s), Letters)

\* re.match(pattern, s): Python's "$" matches at the end of the string and
\* also just before a line break that ends the string.
re_match(s) ==
    \/ PatternToEnd(s)
    \/ /\ s # <<>>
       /\ s[Len(s)] = "\n"
       /\ PatternToEnd(SubSeq(s, 1, Len(s) - 1))

\* utils.validate_email
validate_email(email) ==
    IF email = EmptyStr \/ isna(email) THEN FALSE ELSE re_match(email)

\* EmailSender._is_valid_email
is_valid_email(email) == re_match(email)


(***************************************************************************)
(* Contact ingestion (utils.process_uploaded_file, validate_csv_columns).  *)
(* A data frame is a record of its column names and its rows; a row is the *)
(* tuple of its cells in column order; a cell is a string or NaN.          *)
(***************************************************************************)
c_email == <<"e", "m", "a", "i", "l">>
c_mail == <<"m", "a", "i", "l">>
c_nom == <<"n", "o", "m">>
c_name == <<"n", "a", "m", "e">>
c_prenom_acc == <<"p", "r", "é", "n", "o", "m">>
c_prenom == <<"p", "r", "e", "n", "o", "m">>
c_firstname == <<"f", "i", "r", "s", "t", "n", "a", "m", "e">>
c_entreprise == <<"e", "n", "t", "r", "e", "p", "r", "i", "s", "e">>
c_company == <<"c", "o", "m", "p", "a", "n", "y">>
c_societe == <<"s", "o", "c", "i", "e", "t", "e">>

\* str.lower() on the characters of the model's alphabet.
LowerChar(c) ==
    CASE c = "A" -> "a"
      [] c = "B" -> "b"
      [] c = "E" -> "e"
      [] c = "I" -> "i"
      [] c = "L" -> "l"
      [] c = "M" -> "m"
      [] c = "N" -> "n"
      [] c = "O" -> "o"
      [] c = "P" -> "p"
      [] c = "R" -> "r"
      [] c = "É" -> "é"
      [] OTHER -> c

lower(s) == [k \in 1..Len(s) |-> LowerChar(s[k])]

\* Python's "pat in s".
Contains(s, pat) ==
    \E k \in 1..(Len(s) - Len(pat) + 1) : SubSeq(s, k, k + Len(pat) - 1) = pat

\* s.split(sep) for a one-character separator, and the split on every
\* single separator character that re.split refines.
RECURSIVE SplitAcc(_, _, _, _)
SplitAcc(s, seps, cur, acc) ==
    IF s = <<>> THEN Append(acc, cur)
    ELSE IF Head(s) \in seps
         THEN SplitAcc(Tail(s), seps, <<>>, Append(acc, cur))
         ELSE SplitAcc(Tail(s), seps, Append(cur, Head(s)), acc)

split(s, seps) == SplitAcc(s, seps, <<>>, <<>>)

\* The elements of seq whose index the mask keeps, in order.
RECURSIVE SelectFrom(_, _, _)
SelectFrom(seq, mask, k) ==
    IF k > Len(seq) THEN <<>>
    ELSE IF mask[k] THEN <<seq[k]>> \o SelectFrom(seq, mask, k + 1)
         ELSE SelectFrom(seq, mask, k + 1)

Select(seq, mask) == SelectFrom(seq, mask, 1)

RECURSIVE Flatten(_)
Flatten(ss) == IF ss = <<>> THEN <<>> ELSE Head(ss) \o Flatten(Tail(ss))

\* re.split(r'[,;\t]+', line): a run of separators is one separator, so the
\* empty pieces inside a run disappear; the pieces before the first and
\* after the last separator stay, empty or not.
re_split(line) ==
    LET parts == split(line, {",", ";", "\t"})
    IN Select(parts, [k \in 1..Len(parts) |->
                         k = 1 \/ k = Len(parts) \/ parts[k] # <<>>])

\* utils.py lines 130-139: the canonical name a column is renamed to.
column_mapping(col) ==
    LET col_lower == lower(col) IN
    IF Contains(col_lower, c_email) \/ Contains(col_lower, c_mail) THEN c_email
    ELSE IF Contains(col_lower, c_nom) \/ Contains(col_lower, c_name) THEN c_nom
    ELSE IF \/ Contains(col_lower, c_prenom_acc)
            \/ Contains(col_lower, c_prenom)
            \/ Contains(col_lower, c_firstname) THEN c_prenom
    ELSE IF \/ Contains(col_lower, c_entreprise)
            \/ Contains(col_lower, c_company)
            \/ Contains(col_lower, c_societe) THEN c_entreprise
    ELSE col

\* utils.py lines 124-143: strip the column names, then rename.
rename_columns(columns) ==
    [k \in 1..Len(columns) |-> column_mapping(strip(columns[k]))]

HasColumn(df, name) == \E k \in 1..Len(df.columns) : df.columns[k] = name

ColumnIndexes(df, name) == {k \in 1..Len(df.columns) : df.columns[k] = name}

\* df['email'] of one row, when exactly one column has that name.
EmailCell(df, row) == row[CHOOSE k \in ColumnIndexes(df, c_email) : TRUE]

\* contact.get('email', ''): '' when the record has no such key; with
\* several columns of that name the last one wins in to_dict().
contact_get_email(df, row) ==
    IF ColumnIndexes(df, c_email) = {} THEN EmptyStr
    ELSE row[CHOOSE k \in ColumnIndexes(df, c_email) :
                 \A m \in ColumnIndexes(df, c_email) : m <= k]

\* df[mask]: the rows of df at which mask is true.
FilterRows(df, mask) == [df EXCEPT !.rows = Select(df.rows, mask)]

drop_duplicates_keepLast(df) ==
    LET Last(k) == \A m \in (k + 1)..Len(df.rows) :
                       EmailCell(df, df.rows[m]) # EmailCell(df, df.rows[k])
    IN [df EXCEPT !.rows = Select(df.rows, [k \in 1..Len(df.rows) |-> Last(k)])]

\* df.drop_duplicates(subset=['email'], keep='first')
drop_duplicates(df) ==
    LET First(k) == \A m \in 1..(k - 1) : EmailCell(df, df.rows[m]) # EmailCell(df, df.rows[k])
    IN [df EXCEPT !.rows = Select(df.rows, [k \in 1..Len(df.rows) |-> First(k)])]

\* The .str accessor of line 148 exists only for a column of strings: two
\* columns named email give a frame, a column of nothing but NaN is numeric.
StrAccessorFails(df) ==
    \/ Cardinality(ColumnIndexes(df, c_email)) > 1
    \/ /\ df.rows # <<>>
       /\ \A k \in 1..Len(df.rows) : isna(EmailCell(df, df.rows[k]))

\* utils.py lines 145-169 for a frame that has an email column.
post_process(df) ==
    LET NotNa(row) == ~isna(EmailCell(df, row))
        NotBlank(row) == strip(EmailCell(df, row)) # EmptyStr
        Valid(row) == validate_email(EmailCell(df, row))
        d1 == FilterRows(df, [k \in 1..Len(df.rows) |-> NotNa(df.rows[k])])
        d2 == FilterRows(d1, [k \in 1..Len(d1.rows) |-> NotBlank(d1.rows[k])])
        d3 == FilterRows(d2, [k \in 1..Len(d2.rows) |-> Valid(d2.rows[k])])
        d4 == drop_duplicates(d3)
    IN [ok |-> TRUE, df |-> d4,
        invalid_count |-> Len(d2.rows) - Len(d3.rows),
        duplicate_count |-> Len(d3.rows) - Len(d4.rows)]

Raised == [ok |-> FALSE, df |-> [columns |-> <<>>, rows |-> <<>>],
           invalid_count |-> 0, duplicate_count |-> 0]

txt_emails_wholeLines(content) ==
    LET lines == split(strip(content), {"\n"})
        OfLine(raw) == IF strip(raw) # EmptyStr /\ validate_email(strip(raw))
                       THEN <<strip(raw)>> ELSE <<>>
    IN Flatten([k \in 1..Len(lines) |-> OfLine(lines[k])])

\* utils.py lines 95-119: the addresses of a text file.
txt_emails(content) ==
    LET lines == split(strip(content), {"\n"})
        OfPart(p) == IF strip(p) # EmptyStr /\ validate_email(strip(p))
                     THEN <<strip(p)>> ELSE <<>>
        OfLine(raw) ==
            LET line == strip(raw) IN
            IF line = EmptyStr THEN <<>>
            ELSE IF \E k \in 1..Len(line) : line[k] \in {",", ";", "\t"}
                 THEN LET parts == re_split(line)
                      IN Flatten([k \in 1..Len(parts) |-> OfPart(parts[k])])
                 ELSE IF validate_email(line) THEN <<line>> ELSE <<>>
    IN Flatten([k \in 1..Len(lines) |-> OfLine(lines[k])])

ExtLower(ext) == IF ext = "CSV" THEN "csv" ELSE ext

\* utils.process_uploaded_file: ok = FALSE when it raises.
process_uploaded_file(f) ==
    LET file_extension == ExtLower(f.ext) IN
    IF file_extension \in {"csv", "xlsx", "xls"}
    THEN IF ~f.readable THEN Raised
         ELSE LET df == [columns |-> rename_columns(f.columns), rows |-> f.rows] IN
              IF ~HasColumn(df, c_email) THEN
                  [ok |-> TRUE, df |-> df, invalid_count |-> 0, duplicate_count |-> 0]
              ELSE IF StrAccessorFails(df) THEN Raised
              ELSE post_process(df)
    ELSE IF file_extension = "txt"
    THEN IF ~f.readable THEN Raised
         ELSE LET emails == txt_emails(f.content) IN
              post_process([columns |-> <<c_email>>,
                            rows |-> [k \in 1..Len(emails) |-> <<emails[k]>>]])
    ELSE Raised

\* utils.validate_csv_columns
validate_csv_columns(df) ==
    \E k \in 1..Len(df.columns) : lower(df.columns[k]) = c_email


(***************************************************************************)
(* Delivery backends.  The transport (SMTP server, Gmail API) is outside   *)
(* the program: what it answers to one send is the input t.                *)
(***************************************************************************)
SmtpOutcomes == {"ok", "connect_error", "starttls_error", "auth_error",
                 "recipients_refused", "disconnected", "other_error", "quit_error"}
GmailOutcomes == {"ok", "api_error"}

\* What a server can answer to a sender with these settings: STARTTLS is
\* spoken only in that mode, and a login with a wrong password is refused.
SmtpAnswers(sender) ==
    {t \in SmtpOutcomes :
        /\ t = "starttls_error" => sender.security = "STARTTLS"
        /\ ~sender.password_ok =>
               t \in {"connect_error", "starttls_error", "auth_error", "disconnected"}}

\* EmailSender.send_email (email_sender.py 156-217).  ret is the value it
\* returns; opened, handed and closed count the connections opened, the
\* messages the server accepted and the connections closed by quit().
EmailSender_send_email(sender, recipient_email, t) ==
    IF recipient_email = EmptyStr \/ isna(recipient_email) \/ ~is_valid_email(recipient_email)
    THEN [ret |-> FALSE, raised |-> FALSE, opened |-> 0, handed |-> 0, closed |-> 0]
    ELSE CASE t = "connect_error" ->
                [ret |-> FALSE, raised |-> FALSE, opened |-> 0, handed |-> 0, closed |-> 0]
           [] t \in {"starttls_error", "auth_error", "recipients_refused",
                     "disconnected", "other_error"} ->
                [ret |-> FALSE, raised |-> FALSE, opened |-> 1, handed |-> 0, closed |-> 0]
           [] t = "quit_error" ->
                [ret |-> FALSE, raised |-> FALSE, opened |-> 1, handed |-> 1, closed |-> 0]
           [] OTHER ->
                [ret |-> TRUE, raised |-> FALSE, opened |-> 1, handed |-> 1, closed |-> 1]

\* GmailSender.send_message (gmail_sender.py 409-429)
GmailSender_send_message(g, t) ==
    IF ~g.service THEN [ret |-> FALSE, opened |-> 0, handed |-> 0]
    ELSE IF t = "ok" THEN [ret |-> TRUE, opened |-> 1, handed |-> 1]
         ELSE [ret |-> FALSE, opened |-> 1, handed |-> 0]

\* GmailSender.send_email (gmail_sender.py 431-477).  A NaN address passes
\* the emptiness test and makes create_message raise, which is caught.
GmailSender_send_email(g, recipient_email, t) ==
    IF ~g.service \/ recipient_email = EmptyStr \/ isna(recipient_email)
    THEN [ret |-> FALSE, raised |-> FALSE, opened |-> 0, handed |-> 0, closed |-> 0]
    ELSE LET m == GmailSender_send_message(g, t)
         IN [ret |-> m.ret, raised |-> FALSE, opened |-> m.opened,
             handed |-> m.handed, closed |-> m.opened]


(***************************************************************************)
(* The files an operator uploads in the model.                             *)
(***************************************************************************)
E1 == <<"a", "@", "a", ".", "a", "a">>
E2 == <<"b", "@", "a", ".", "a", "a">>
E3 == <<"c", "@", "a", ".", "a", "a">>
E1NL == E1 \o <<"\n">>
NoAt == <<"a", "a">>
Bang == <<"a", "!", "a", "@", "a", ".", "a", "a">>
Blank == <<" ">>

CellPool == {NaN, EmptyStr, Blank, NoAt, E1, E2, E3, E1NL}
PiecePool == {E1, E2, NoAt, <<",">>, <<";">>, <<"\n">>, <<" ">>}

H_Email == <<"E", "m", "a", "i", "l">>
H_Mail == <<"M", "a", "i", "l">>
H_Nom == <<"N", "o", "m">>
H_Prenom == <<"P", "r", "é", "n", "o", "m">>
H_EMAIL == <<"E", "M", "A", "I", "L">>
H_NOM == <<"N", "O", "M">>
H_PRENOM == <<"P", "R", "E", "N", "O", "M">>
HeaderPool == {<<H_Email>>, <<H_Email, H_Nom>>, <<H_Nom>>, <<H_Email, H_Mail>>,
               <<H_Email, H_Nom, H_Prenom>>, <<H_EMAIL, H_NOM, H_PRENOM>>}

SeqsUpTo(pool, n) == UNION {[1..k -> pool] : k \in 0..n}

TableFiles ==
    {[ext |-> e, readable |-> TRUE, columns |-> h,
      rows |-> [k \in 1..Len(cs) |->
                   [j \in 1..Len(h) |-> IF j = 1 THEN cs[k] ELSE <<"x">>]],
      content |-> <<>>] :
        e \in {"csv", "CSV", "xlsx", "xls"}, h \in HeaderPool,
        cs \in SeqsUpTo(CellPool, MaxRows)}

TextFiles ==
    {[ext |-> "txt", readable |-> TRUE, columns |-> <<>>, rows |-> <<>>,
      content |-> Flatten(ps)] : ps \in SeqsUpTo(PiecePool, MaxPieces)}

BrokenFiles ==
    {[ext |-> e, readable |-> r, columns |-> <<>>, rows |-> <<>>, content |-> <<>>] :
        e \in {"csv", "xlsx", "txt", "pdf"}, r \in {FALSE}}

FileSet == TableFiles \cup TextFiles \cup BrokenFiles

\* app.py 451-470: the frame the upload handler stores, or NoFrame when the
\* handler reports an error and stores nothing.
NoFrame == [loaded |-> FALSE, columns |-> <<>>, rows |-> <<>>]

upload_result(f) ==
    LET r == process_uploaded_file(f) IN
    IF r.ok /\ validate_csv_columns(r.df)
    THEN [loaded |-> TRUE, columns |-> r.df.columns, rows |-> r.df.rows]
    ELSE NoFrame

\* The files uploaded in the session: tables of one Email column holding
\* the first addresses of SessionCells, a table without an email column, a
\* text file and a file that cannot be read.
SessionCells == <<E1, E1NL, E2, E3>>

SessionFiles ==
    {f \in TableFiles :
        /\ f.ext = "csv"
        /\ f.columns \in {<<H_Email>>, <<H_Nom>>}
        /\ Len(f.rows) <= Len(SessionCells)
        /\ \A k \in 1..Len(f.rows) : f.rows[k][1] = SessionCells[k]}
    \cup {f \in TextFiles : f.content \in {E1, NoAt}}
    \cup {f \in BrokenFiles : f.ext = "csv"}

UploadResults == {upload_result(f) : f \in SessionFiles}

(***************************************************************************)
(* The interactive session (app.py).                                       *)
(***************************************************************************)
VARIABLES
    contacts_df,      \* st.session_state.contacts_df
    sending_status,   \* st.session_state.sending_status
    send_logs,        \* st.session_state.send_logs
    send_method,      \* st.session_state.send_method
    email_sender,     \* st.session_state.email_sender
    gmail_sender,     \* st.session_state.gmail_sender
    auth_url,         \* whether st.session_state has auth_url
    pc,               \* where the script thread of the send loop stands
    idx,              \* position of the loop in contacts_df (1-based)
    tracked,          \* history: a run is going on, or has just ended
    attempts,         \* history: the sends of the current run, in order
    stopped,          \* history: where the loop stood when stop was pressed
    log_base,         \* history: length of send_logs when the run started
    io                \* the call under study in the function-level specifications

vars == <<contacts_df, sending_status, send_logs, send_method, email_sender,
          gmail_sender, auth_url, pc, idx, tracked, attempts, stopped, log_base, io>>

NoCall == [op |-> "none"]
NoStop == [pressed |-> FALSE, pc |-> "idle", idx |-> 0]
NoEmailSender == [exists |-> FALSE, password_ok |-> FALSE, security |-> "STARTTLS"]
NoGmailSender == [exists |-> FALSE, service |-> FALSE, flow |-> FALSE]
NewGmailSender == [exists |-> TRUE, service |-> FALSE, flow |-> FALSE]

Times == {"12:00:00"}
ErrorTexts == {"timeout"}

\* app.py 79-93
Init ==
    /\ contacts_df = NoFrame
    /\ sending_status = [active |-> FALSE, progress |-> 0, total |-> 0,
                         success |-> 0, errors |-> <<>>]
    /\ send_logs = <<>>
    /\ send_method = "SMTP"
    /\ email_sender = NoEmailSender
    /\ gmail_sender = NoGmailSender
    /\ auth_url = FALSE
    /\ pc = "idle"
    /\ idx = 0
    /\ tracked = FALSE
    /\ attempts = <<>>
    /\ stopped = NoStop
    /\ log_base = 0
    /\ io = NoCall

Session == <<contacts_df, sending_status, send_logs, send_method, email_sender,
             gmail_sender, auth_url>>
History == <<tracked, attempts, stopped, log_base>>

\* The history variables describe the current run, or the last one until
\* the operator does something else in the session.
HistoryReset ==
    /\ tracked' = FALSE
    /\ attempts' = <<>>
    /\ stopped' = NoStop
    /\ log_base' = 0

\* Mutant: a file that fails takes the loaded batch away.
UploadFile_dropsBatch(f) ==
    /\ contacts_df' = f
    /\ UNCHANGED <<sending_status, send_logs, send_method, email_sender,
                   gmail_sender, auth_url, pc, idx>>

\* app.py 451-470: a file is uploaded and ingested.
\* f is what process_uploaded_file and validate_csv_columns made of the file.
UploadFile(f) ==
    /\ contacts_df' = IF f.loaded THEN f ELSE contacts_df
    /\ UNCHANGED <<sending_status, send_logs, send_method, email_sender,
                   gmail_sender, auth_url, pc, idx>>

Upload ==
    /\ pc = "idle"
    /\ \E f \in UploadResults : UploadFile(f)
    /\ UNCHANGED io
    /\ HistoryReset


\* app.py 122-127: the operator picks the sending method.
SelectMethod ==
    /\ pc = "idle"
    /\ \E m \in {"SMTP", "Gmail API"} : m # send_method /\ send_method' = m
    /\ UNCHANGED <<contacts_df, sending_status, send_logs, email_sender,
                   gmail_sender, auth_url, pc, idx, io>>
    /\ HistoryReset

\* app.py 592-598.  filled: subject and content are not empty; creds: the
\* sender address and password fields ("missing" when one is empty).
ready_to_send(filled, creds) ==
    /\ contacts_df.loaded
    /\ filled
    /\ IF send_method = "SMTP" THEN creds # "missing"
       ELSE gmail_sender.exists /\ gmail_sender.service

\* Mutant: a new run goes on from the counts of the run before.
StartRun_keepsCounters(filled, creds, security) ==
    /\ ready_to_send(filled, creds)
    /\ ~sending_status.active
    /\ email_sender' =
           IF send_method = "SMTP"
           THEN [exists |-> TRUE, password_ok |-> creds = "right",
                 security |-> security]
           ELSE email_sender
    /\ sending_status' = [sending_status EXCEPT !.active = TRUE, !.progress = 0,
                                                !.total = Len(contacts_df.rows)]
    /\ pc' = "check"
    /\ idx' = 1
    /\ tracked' = TRUE
    /\ attempts' = <<>>
    /\ stopped' = NoStop
    /\ log_base' = Len(send_logs)
    /\ UNCHANGED <<contacts_df, send_logs, send_method, gmail_sender, auth_url>>

\* Mutant: a new run starts with an empty log.
StartRun_clearsLog(filled, creds, security) ==
    /\ ready_to_send(filled, creds)
    /\ ~sending_status.active
    /\ email_sender' =
           IF send_method = "SMTP"
           THEN [exists |-> TRUE, password_ok |-> creds = "right",
                 security |-> security]
           ELSE email_sender
    /\ sending_status' = [active |-> TRUE, progress |-> 0,
                          total |-> Len(contacts_df.rows),
                          success |-> 0, errors |-> <<>>]
    /\ pc' = "check"
    /\ idx' = 1
    /\ tracked' = TRUE
    /\ attempts' = <<>>
    /\ stopped' = NoStop
    /\ log_base' = 0
    /\ send_logs' = <<>>
    /\ UNCHANGED <<contacts_df, send_method, gmail_sender, auth_url>>

\* app.py 612-633: the start button.  The widgets' values in the script run
\* of the button press are the inputs.
StartRun(filled, creds, security) ==
    /\ ready_to_send(filled, creds)
    /\ ~sending_status.active
    /\ email_sender' =
           IF send_method = "SMTP"
           THEN [exists |-> TRUE, password_ok |-> creds = "right",
                 security |-> security]
           ELSE email_sender
    /\ sending_status' = [active |-> TRUE, progress |-> 0,
                          total |-> Len(contacts_df.rows),
                          success |-> 0, errors |-> <<>>]
    /\ pc' = "check"
    /\ idx' = 1
    /\ tracked' = TRUE
    /\ attempts' = <<>>
    /\ stopped' = NoStop
    /\ log_base' = Len(send_logs)
    /\ UNCHANGED <<contacts_df, send_logs, send_method, gmail_sender, auth_url>>

Start ==
    /\ pc = "idle"
    /\ Len(send_logs) + Len(contacts_df.rows) <= MaxLog
    /\ \E filled \in BOOLEAN, creds \in {"missing", "wrong", "right"},
          security \in {"STARTTLS"} : StartRun(filled, creds, security)
    /\ UNCHANGED io

\* Mutant: the loop does not look at the active flag.
LoopNext_ignoresStop ==
    /\ pc = "check"
    /\ idx <= Len(contacts_df.rows)
    /\ pc' = "send"
    /\ UNCHANGED <<Session, idx, History, io>>

\* app.py 635-640: the next record exists and the run is still active.
LoopNext ==
    /\ pc = "check"
    /\ idx <= Len(contacts_df.rows)
    /\ sending_status.active
    /\ pc' = "send"
    /\ UNCHANGED <<Session, idx, History, io>>

\* app.py 636-637 and 696: the cancellation checkpoint breaks the loop.
LoopBreak ==
    /\ pc = "check"
    /\ idx <= Len(contacts_df.rows)
    /\ ~sending_status.active
    /\ sending_status' = [sending_status EXCEPT !.active = FALSE]
    /\ pc' = "idle"
    /\ UNCHANGED <<contacts_df, send_logs, send_method, email_sender,
                   gmail_sender, auth_url, idx, History, io>>

\* Mutant: the loop ends without clearing the active flag.
LoopFinish_staysActive ==
    /\ pc = "check"
    /\ idx > Len(contacts_df.rows)
    /\ pc' = "idle"
    /\ UNCHANGED <<Session, idx, History, io>>

\* app.py 635 and 696: no record is left.
LoopFinish ==
    /\ pc = "check"
    /\ idx > Len(contacts_df.rows)
    /\ sending_status' = [sending_status EXCEPT !.active = FALSE]
    /\ pc' = "idle"
    /\ UNCHANGED <<contacts_df, send_logs, send_method, email_sender,
                   gmail_sender, auth_url, idx, History, io>>

current_email == contact_get_email(contacts_df, contacts_df.rows[idx])

LogEntry(email, status, timestamp, error) ==
    [email |-> email, status |-> status, timestamp |-> timestamp, error |-> error]

\* Mutant: a failed send is logged but its address is not kept in errors.
Recorded_forgetsError(success, now) ==
    IF success
    THEN /\ sending_status' = [sending_status EXCEPT !.success = @ + 1]
         /\ send_logs' = Append(send_logs, LogEntry(current_email, "Succès", now, ""))
    ELSE /\ sending_status' = sending_status
         /\ send_logs' = Append(send_logs,
                                LogEntry(current_email, "Échec", now, "Erreur d'envoi"))

\* app.py 661-678: the bookkeeping of a send that returned.
Recorded(success, now) ==
    IF success
    THEN /\ sending_status' = [sending_status EXCEPT !.success = @ + 1]
         /\ send_logs' = Append(send_logs, LogEntry(current_email, "Succès", now, ""))
    ELSE /\ sending_status' = [sending_status EXCEPT !.errors = Append(@, current_email)]
         /\ send_logs' = Append(send_logs,
                                LogEntry(current_email, "Échec", now, "Erreur d'envoi"))

\* Mutant: a send that returns after stop was pressed is dropped.
LoopSend_droppedOnStop ==
    /\ pc = "send"
    /\ \E now \in Times, success \in BOOLEAN :
           IF sending_status.active
           THEN /\ Recorded(success, now)
                /\ attempts' = Append(attempts, [idx |-> idx, email |-> current_email,
                                                outcome |-> IF success THEN "true" ELSE "false"])
                /\ pc' = "advance"
           ELSE /\ pc' = "check"
                /\ UNCHANGED <<sending_status, send_logs, attempts>>
    /\ UNCHANGED <<contacts_df, send_method, email_sender, gmail_sender, auth_url,
                   idx, tracked, stopped, log_base, io>>

\* app.py 642-678: the send of the current record returns.
LoopSend ==
    /\ pc = "send"
    /\ \E now \in Times :
        \E success \in
            IF send_method = "SMTP"
            THEN {EmailSender_send_email(email_sender, current_email, t).ret :
                      t \in SmtpAnswers(email_sender)}
            ELSE IF gmail_sender.exists
                 THEN {GmailSender_send_email(gmail_sender, current_email, t).ret :
                           t \in GmailOutcomes}
                 ELSE {FALSE} :
            /\ Recorded(success, now)
            /\ attempts' = Append(attempts, [idx |-> idx, email |-> current_email,
                                            outcome |-> IF success THEN "true" ELSE "false"])
    /\ pc' = "advance"
    /\ UNCHANGED <<contacts_df, send_method, email_sender, gmail_sender, auth_url,
                   idx, tracked, stopped, log_base, io>>

\* Mutant: the exception is not caught and ends the loop.
LoopSendRaise_aborts ==
    /\ pc = "send"
    /\ sending_status' = [sending_status EXCEPT !.active = FALSE]
    /\ pc' = "idle"
    /\ UNCHANGED <<contacts_df, send_logs, send_method, email_sender, gmail_sender,
                   auth_url, idx, History, io>>

\* app.py 642-659 and 680-688: an exception leaves the try block.
LoopSendRaise ==
    /\ pc = "send"
    /\ \E now \in Times, e \in ErrorTexts :
           /\ sending_status' = [sending_status EXCEPT !.errors = Append(@, current_email)]
           /\ send_logs' = Append(send_logs, LogEntry(current_email, "Erreur", now, e))
    /\ attempts' = Append(attempts, [idx |-> idx, email |-> current_email,
                                    outcome |-> "raise"])
    /\ pc' = "advance"
    /\ UNCHANGED <<contacts_df, send_method, email_sender, gmail_sender, auth_url,
                   idx, tracked, stopped, log_base, io>>

\* Mutant: progress counts the sends that succeeded only.
LoopAdvance_countsSuccesses ==
    /\ pc = "advance"
    /\ sending_status' =
           IF attempts[Len(attempts)].outcome = "true"
           THEN [sending_status EXCEPT !.progress = @ + 1]
           ELSE sending_status
    /\ idx' = idx + 1
    /\ pc' = "check"
    /\ UNCHANGED <<contacts_df, send_logs, send_method, email_sender,
                   gmail_sender, auth_url, History, io>>

\* Mutant: a record whose send did not succeed is tried again.
LoopAdvance_retries ==
    /\ pc = "advance"
    /\ sending_status' = [sending_status EXCEPT !.progress = @ + 1]
    /\ idx' = IF attempts[Len(attempts)].outcome = "true" THEN idx + 1 ELSE idx
    /\ pc' = "check"
    /\ UNCHANGED <<contacts_df, send_logs, send_method, email_sender,
                   gmail_sender, auth_url, History, io>>

\* app.py 690-694: progress, then the delay; the loop goes to the next record.
LoopAdvance ==
    /\ pc = "advance"
    /\ sending_status' = [sending_status EXCEPT !.progress = @ + 1]
    /\ idx' = idx + 1
    /\ pc' = "check"
    /\ UNCHANGED <<contacts_df, send_logs, send_method, email_sender,
                   gmail_sender, auth_url, History, io>>

\* Mutant: stop also puts the counters back to zero.
Stop_resetsCounters ==
    /\ sending_status.active
    /\ sending_status' = [sending_status EXCEPT !.active = FALSE, !.progress = 0,
                                                !.success = 0, !.errors = <<>>]
    /\ stopped' = [pressed |-> TRUE, pc |-> pc, idx |-> idx]
    /\ UNCHANGED <<contacts_df, send_logs, send_method, email_sender,
                   gmail_sender, auth_url, pc, idx, tracked, attempts, log_base, io>>

\* app.py 699-702: the stop button, shown while the run is active.  It is
\* the one handler that runs while the loop is executing.
Stop ==
    /\ sending_status.active
    /\ sending_status' = [sending_status EXCEPT !.active = FALSE]
    /\ stopped' = [pressed |-> TRUE, pc |-> pc, idx |-> idx]
    /\ UNCHANGED <<contacts_df, send_logs, send_method, email_sender,
                   gmail_sender, auth_url, pc, idx, tracked, attempts, log_base, io>>

\* app.py 780-783: the clear button, shown while the log is not empty.
ClearLogs ==
    /\ pc = "idle"
    /\ send_logs # <<>>
    /\ send_logs' = <<>>
    /\ UNCHANGED <<contacts_df, sending_status, send_method, email_sender,
                   gmail_sender, auth_url, pc, idx, io>>
    /\ HistoryReset

\* app.py 247-254: a credentials file is present and no sender exists yet.
GmailCreate ==
    /\ pc = "idle"
    /\ send_method = "Gmail API"
    /\ ~gmail_sender.exists
    /\ gmail_sender' = NewGmailSender
    /\ UNCHANGED <<contacts_df, sending_status, send_logs, send_method,
                   email_sender, auth_url, pc, idx, io>>
    /\ HistoryReset

\* GmailSender.start_auth_flow (gmail_sender.py 62-126) as app.py 259-268
\* calls it.  built: a stored token made the method build the service;
\* flowed: the method created the flow; result: what it returned.
StartAuthFlow(built, flowed, result) ==
    /\ result = "ALREADY" => built /\ ~flowed
    /\ result = "URL" => flowed
    /\ gmail_sender' = [gmail_sender EXCEPT !.service = @ \/ built, !.flow = @ \/ flowed]
    /\ auth_url' = IF result = "URL" THEN TRUE ELSE auth_url

GmailStartAuth ==
    /\ pc = "idle"
    /\ send_method = "Gmail API"
    /\ gmail_sender.exists
    /\ \E built \in BOOLEAN, flowed \in BOOLEAN, result \in {"ALREADY", "URL", "ERROR"} :
           StartAuthFlow(built, flowed, result)
    /\ UNCHANGED <<contacts_df, sending_status, send_logs, send_method,
                   email_sender, pc, idx, io>>
    /\ HistoryReset

\* GmailSender.complete_authentication (gmail_sender.py 145-278) as
\* app.py 335-345 calls it.
CompleteAuthentication(result) ==
    IF ~gmail_sender.flow \/ result = "false"
    THEN UNCHANGED <<gmail_sender, auth_url>>
    ELSE IF result = "scope_mismatch"
    THEN /\ gmail_sender' = [gmail_sender EXCEPT !.flow = FALSE]
         /\ UNCHANGED auth_url
    ELSE /\ gmail_sender' = [gmail_sender EXCEPT !.service = TRUE]
         /\ auth_url' = FALSE

GmailCompleteAuth ==
    /\ pc = "idle"
    /\ send_method = "Gmail API"
    /\ gmail_sender.exists
    /\ auth_url
    /\ \E result \in {"true", "false", "scope_mismatch"} : CompleteAuthentication(result)
    /\ UNCHANGED <<contacts_df, sending_status, send_logs, send_method,
                   email_sender, pc, idx, io>>
    /\ HistoryReset

\* app.py 294-306: the reset button replaces the sender by a fresh one.
GmailReset ==
    /\ pc = "idle"
    /\ send_method = "Gmail API"
    /\ gmail_sender.exists
    /\ gmail_sender' = NewGmailSender
    /\ auth_url' = FALSE
    /\ UNCHANGED <<contacts_df, sending_status, send_logs, send_method,
                   email_sender, pc, idx, io>>
    /\ HistoryReset

\* app.py 329-333: the "new link" button forgets the authorization URL.
GmailNewLink ==
    /\ pc = "idle"
    /\ send_method = "Gmail API"
    /\ gmail_sender.exists
    /\ auth_url
    /\ auth_url' = FALSE
    /\ UNCHANGED <<contacts_df, sending_status, send_logs, send_method,
                   email_sender, gmail_sender, pc, idx, io>>
    /\ HistoryReset

Loop == LoopNext \/ LoopBreak \/ LoopFinish \/ LoopSend \/ LoopSendRaise \/ LoopAdvance

Next ==
    \/ Upload
    \/ SelectMethod
    \/ Start
    \/ LoopNext
    \/ LoopBreak
    \/ LoopFinish
    \/ LoopSend
    \/ LoopSendRaise
    \/ LoopAdvance
    \/ Stop
    \/ ClearLogs
    \/ GmailCreate
    \/ GmailStartAuth
    \/ GmailCompleteAuth
    \/ GmailReset
    \/ GmailNewLink

Spec == Init /\ [][Next]_vars

\* The script thread of a started loop keeps running.
FairSpec == Spec /\ WF_vars(Loop)


(***************************************************************************)
(* Properties of the send loop.                                            *)
(***************************************************************************)
RunLog == SubSeq(send_logs, log_base + 1, Len(send_logs))

Count(att, outcomes) == Cardinality({k \in 1..Len(att) : att[k].outcome \in outcomes})

\* The addresses of the attempts that did not succeed, in order.
FailedEmails(att) ==
    LET failed == Select(att, [k \in 1..Len(att) |-> att[k].outcome # "true"])
    IN [k \in 1..Len(failed) |-> failed[k].email]

RecordEmail(k) == contact_get_email(contacts_df, contacts_df.rows[k])

\* The facts of C1 about the state in which a run has just ended.
CompleteRun ==
    LET n == Len(contacts_df.rows) IN
    /\ sending_status.progress = n
    /\ sending_status.total = n
    /\ sending_status.success = Count(attempts, {"true"})
    /\ sending_status.errors = FailedEmails(attempts)
    /\ Len(RunLog) = n
    /\ \A k \in 1..n : /\ RunLog[k].email = RecordEmail(k)
                       /\ attempts[k].idx = k
                       /\ RunLog[k].status =
                              CASE attempts[k].outcome = "true" -> "Succès"
                                [] attempts[k].outcome = "false" -> "Échec"
                                [] OTHER -> "Erreur"

\* C1: a run over N records that is not cancelled ends with progress = N,
\* total = N, success = the number of sends that returned true, errors =
\* the addresses of the other records in their original order, and N new
\* log entries, one per record, in the records' order.
C1_UncancelledRunResult ==
    [][(pc = "check" /\ pc' = "idle" /\ ~stopped.pressed) => CompleteRun']_vars

\* A run of three records whose sends returned true, false, true has ended.
C1_Witness ==
    /\ pc = "idle"
    /\ ~stopped.pressed
    /\ Len(attempts) = 3
    /\ attempts[1].outcome = "true"
    /\ attempts[2].outcome = "false"
    /\ attempts[3].outcome = "true"
    /\ sending_status.progress = 3
    /\ sending_status.success = 2
    /\ sending_status.errors = <<RecordEmail(2)>>
    /\ Len(RunLog) = 3

\* C2: when stop is pressed while the loop stands before the check of
\* record k+1, the loop attempts no further record: progress stays k, below
\* total, no send starts and the run's log keeps its k entries.
C2_StopBeforeNextRecord ==
    (stopped.pressed /\ stopped.pc = "check" /\ stopped.idx <= sending_status.total) =>
        /\ pc \in {"check", "idle"}
        /\ sending_status.progress = stopped.idx - 1
        /\ sending_status.progress < sending_status.total
        /\ Len(attempts) = stopped.idx - 1
        /\ Len(send_logs) <= log_base + stopped.idx - 1

\* Stop was pressed before record 3 of 3 and the loop has halted after 2.
C2_Witness ==
    /\ pc = "idle"
    /\ stopped.pressed /\ stopped.pc = "check" /\ stopped.idx = 3
    /\ sending_status.total = 3
    /\ sending_status.progress = 2
    /\ Len(RunLog) = 2

\* C3: when stop is pressed while the send of record k is in flight, that
\* send still completes: once the loop has left the send, record k has its
\* attempt, is counted in success or errors and has its log entry; after
\* the advance, progress = k, and the loop goes no further.
C3_InFlightSendCompletes ==
    (stopped.pressed /\ stopped.pc = "send") =>
        /\ pc = "send" => idx = stopped.idx /\ Len(attempts) = stopped.idx - 1
        /\ pc # "send" =>
               /\ Len(attempts) = stopped.idx
               /\ attempts[stopped.idx].idx = stopped.idx
               /\ sending_status.success + Len(sending_status.errors) = stopped.idx
        /\ pc = "advance" =>
               /\ Len(RunLog) = stopped.idx
               /\ sending_status.progress = stopped.idx - 1
        /\ pc \in {"check", "idle"} => sending_status.progress = stopped.idx

\* Stop was pressed during the send of record 2 of 3; the run ended with
\* that record counted.
C3_Witness ==
    /\ pc = "idle"
    /\ stopped.pressed /\ stopped.pc = "send" /\ stopped.idx = 2
    /\ sending_status.total = 3
    /\ sending_status.progress = 2
    /\ Len(attempts) = 2

\* C4: a run that was started ends, and when the loop is not executing the
\* status is not active, whatever the sends did and whether or not stop was
\* pressed.
C4_RunTerminatesInactive ==
    /\ [](pc = "idle" => ~sending_status.active)
    /\ (pc # "idle") ~> (pc = "idle" /\ ~sending_status.active)

\* A cancelled run with a raising send has reached its terminal state.
C4_Witness ==
    /\ pc = "idle"
    /\ ~sending_status.active
    /\ stopped.pressed
    /\ Count(attempts, {"raise"}) > 0

\* C5: within a run no record is handed to the backend twice, and every
\* send that did not succeed has one entry in errors and one log entry.
C5_NoRetry ==
    tracked =>
        /\ \A j, k \in 1..Len(attempts) : j < k => attempts[j].idx < attempts[k].idx
        /\ Len(sending_status.errors) = Count(attempts, {"false", "raise"})
        /\ Len(RunLog) = Len(attempts)

\* A run went past a failed first send to the later records.
C5_Witness ==
    /\ pc = "idle"
    /\ Len(attempts) = 3
    /\ attempts[1].outcome = "false"
    /\ sending_status.errors = <<RecordEmail(1)>>

\* C6: a send that returns false or raises appends the address to errors
\* and one log entry and leaves the loop running; the advance that follows
\* increments progress and goes to the check of the next record, which is
\* attempted unless the run was cancelled.
C6_FailureDoesNotStopLoop ==
    /\ [][(pc = "send" /\ pc' # "send") =>
              /\ pc' = "advance"
              /\ Len(attempts') = Len(attempts) + 1
              /\ attempts'[Len(attempts')].outcome # "true" =>
                     /\ sending_status'.errors = Append(sending_status.errors, current_email)
                     /\ Len(send_logs') = Len(send_logs) + 1
                     /\ send_logs'[Len(send_logs')].email = current_email
                     /\ sending_status'.active = sending_status.active]_vars
    /\ [][(pc = "advance" /\ pc' # "advance") =>
              /\ pc' = "check"
              /\ idx' = idx + 1
              /\ sending_status'.progress = sending_status.progress + 1]_vars
    /\ [][(pc = "check" /\ pc' = "idle" /\ ~stopped.pressed) =>
              Len(attempts) = sending_status.total]_vars

\* A run whose first send returned false and whose second raised went on to
\* its third record.
C6_Witness ==
    /\ Len(attempts) = 3
    /\ attempts[1].outcome = "false"
    /\ attempts[2].outcome = "raise"
    /\ ~stopped.pressed
    /\ sending_status.errors = <<RecordEmail(1), RecordEmail(2)>>

\* The backend of the run holds a session that can send: the SMTP password
\* is the right one, or the Gmail service is set.
SessionEstablished ==
    IF send_method = "SMTP" THEN email_sender.exists /\ email_sender.password_ok
    ELSE gmail_sender.exists /\ gmail_sender.service

\* C9: when the chosen backend cannot establish an authenticated session,
\* the run does not start: no send is attempted and no log entry is made.
C9_NoRunWithoutSession ==
    (pc # "idle" /\ ~SessionEstablished) => (attempts = <<>> /\ RunLog = <<>>)

(***************************************************************************)
(* Function-level specifications: one call of a backend's send_email, and  *)
(* one ingestion of a file, on inputs drawn from the pools.                *)
(***************************************************************************)
SessionIdle ==
    /\ contacts_df = NoFrame
    /\ sending_status = [active |-> FALSE, progress |-> 0, total |-> 0,
                         success |-> 0, errors |-> <<>>]
    /\ send_logs = <<>>
    /\ send_method = "SMTP"
    /\ email_sender = NoEmailSender
    /\ gmail_sender = NoGmailSender
    /\ auth_url = FALSE
    /\ pc = "idle"
    /\ idx = 0
    /\ tracked = FALSE
    /\ attempts = <<>>
    /\ stopped = NoStop
    /\ log_base = 0

NoResult == [ret |-> FALSE, raised |-> FALSE, opened |-> 0, handed |-> 0, closed |-> 0]

\* The values of contact['email'] the two send_email are called with.
SendPool == CellPool \cup {Bang}

SendCalls ==
    {[op |-> "send", backend |-> "SMTP", email |-> e, t |-> t, done |-> FALSE,
      sender |-> sd, res |-> NoResult] :
        e \in SendPool, t \in SmtpOutcomes,
        sd \in [exists : {TRUE}, password_ok : BOOLEAN,
                security : {"STARTTLS", "SSL", "Aucune"}]}
    \cup
    {[op |-> "send", backend |-> "Gmail API", email |-> e, t |-> t, done |-> FALSE,
      sender |-> sd, res |-> NoResult] :
        e \in SendPool, t \in GmailOutcomes,
        sd \in [exists : {TRUE}, service : BOOLEAN, flow : {FALSE}]}

InitSend ==
    /\ SessionIdle
    /\ io \in {c \in SendCalls : c.backend = "SMTP" => c.t \in SmtpAnswers(c.sender)}

\* EmailSender.send_email is called.
SmtpSendCall ==
    /\ io.op = "send" /\ io.backend = "SMTP" /\ ~io.done
    /\ io' = [io EXCEPT !.done = TRUE,
                        !.res = EmailSender_send_email(io.sender, io.email, io.t)]
    /\ UNCHANGED <<Session, pc, idx, History>>

\* GmailSender.send_email is called.
GmailSendCall ==
    /\ io.op = "send" /\ io.backend = "Gmail API" /\ ~io.done
    /\ io' = [io EXCEPT !.done = TRUE,
                        !.res = GmailSender_send_email(io.sender, io.email, io.t)]
    /\ UNCHANGED <<Session, pc, idx, History>>

NextSend == SmtpSendCall \/ GmailSendCall

SpecSend == InitSend /\ [][NextSend]_vars

\* utils.py 154-167: the counts that process_uploaded_file reports with
\* st.warning and st.info.
NoReport == [invalid_count |-> 0, duplicate_count |-> 0]

upload_report(f) ==
    LET r == process_uploaded_file(f)
    IN [invalid_count |-> r.invalid_count, duplicate_count |-> r.duplicate_count]

InitIngest ==
    /\ SessionIdle
    /\ io \in {[op |-> "ingest", file |-> f, done |-> FALSE, res |-> NoFrame,
                report |-> NoReport] : f \in FileSet}

\* app.py 451-470 on the file: process_uploaded_file, validate_csv_columns.
IngestCall ==
    /\ io.op = "ingest" /\ ~io.done
    /\ io' = [io EXCEPT !.done = TRUE, !.res = upload_result(io.file),
                        !.report = upload_report(io.file)]
    /\ UNCHANGED <<Session, pc, idx, History>>

NextIngest == IngestCall

SpecIngest == InitIngest /\ [][NextIngest]_vars

(***************************************************************************)
(* Properties of the two send_email and of ingestion.                      *)
(***************************************************************************)
\* The syntax rule of the specification: the whole string is
\* local-part@domain.tld over the three character classes.
SyntaxRule(email) == ~isna(email) /\ PatternToEnd(email)

\* The failures of a transmission that the environment reports.
TransmissionFailed == io.t # "ok"

\* C7: send_email of either backend propagates no exception, returns false
\* for a missing or invalid address and for every failed transmission, and
\* returns true only when one message was handed to the transport.
C7_SendOneFailsSoft ==
    (io.op = "send" /\ io.done) =>
        /\ ~io.res.raised
        /\ ~SyntaxRule(io.email) => ~io.res.ret
        /\ TransmissionFailed => ~io.res.ret
        /\ io.res.ret => io.res.handed = 1

\* C8: send_email of either backend, called with an address that is
\* missing, empty or outside the syntax rule, returns false with no
\* connection opened and no message handed over.
C8_InvalidAddressNoTransmission ==
    (io.op = "send" /\ io.done /\ ~SyntaxRule(io.email)) =>
        /\ ~io.res.ret
        /\ io.res.opened = 0
        /\ io.res.handed = 0

\* C10: in every batch that ingestion accepts each record has an email
\* that is present, not empty and inside the syntax rule, and no two
\* records have the same email.
C10_AcceptedBatchValidDistinct ==
    (io.op = "ingest" /\ io.done /\ io.res.loaded) =>
        LET df == io.res
            email(k) == contact_get_email(df, df.rows[k])
        IN /\ HasColumn(df, c_email)
           /\ \A k \in 1..Len(df.rows) :
                  email(k) # EmptyStr /\ SyntaxRule(email(k))
           /\ \A j, k \in 1..Len(df.rows) : j # k => email(j) # email(k)

\* The headers of the table are Email, Nom and Prénom, in any letter case,
\* with or without the accent.
EmailNomPrenomHeaders(columns) ==
    /\ Len(columns) = 3
    /\ lower(columns[1]) = c_email
    /\ lower(columns[2]) = c_nom
    /\ lower(columns[3]) \in {c_prenom, c_prenom_acc}

\* C11: a table with the headers Email, Nom and Prénom is ingested with
\* the three distinct canonical columns email, nom and prenom, each header
\* under its own canonical name.
C11_CanonicalKeysDistinct ==
    (io.op = "ingest" /\ io.done /\ io.res.loaded
                       /\ EmailNomPrenomHeaders(io.file.columns)) =>
        io.res.columns = <<c_email, c_nom, c_prenom>>

\* The file is a table with one column that ingestion takes for the email.
IsTable(f) ==
    /\ f.ext \in {"csv", "CSV", "xlsx", "xls"}
    /\ Cardinality({k \in 1..Len(f.columns) :
                       column_mapping(f.columns[k]) = c_email}) = 1

FileEmail(f, k) ==
    f.rows[k][CHOOSE j \in 1..Len(f.columns) : column_mapping(f.columns[j]) = c_email]

\* The rows of the file whose email survives the emptiness and syntax
\* filters, and among them the first row of every address.
UsableRows(f) ==
    {k \in 1..Len(f.rows) :
        /\ ~isna(FileEmail(f, k))
        /\ strip(FileEmail(f, k)) # EmptyStr
        /\ validate_email(FileEmail(f, k))}

FirstRows(f) ==
    {k \in UsableRows(f) : \A m \in UsableRows(f) :
        m < k => FileEmail(f, m) # FileEmail(f, k)}

\* C12: an ingested table keeps, for every address, exactly the first row
\* that has it, in file order, and the reported duplicate count is the
\* number of rows removed as duplicates.
C12_DeduplicationKeepsFirst ==
    (io.op = "ingest" /\ io.done /\ io.res.loaded /\ IsTable(io.file)) =>
        LET f == io.file IN
        /\ io.res.rows = Select(f.rows, [k \in 1..Len(f.rows) |-> k \in FirstRows(f)])
        /\ io.report.duplicate_count =
               Cardinality(UsableRows(f)) - Cardinality(FirstRows(f))

\* A table of three rows whose first and last rows share an address is
\* ingested as the first two rows, with one duplicate reported.
C12_Witness ==
    /\ io.op = "ingest" /\ io.done /\ io.res.loaded /\ IsTable(io.file)
    /\ Len(io.file.rows) = 3
    /\ FileEmail(io.file, 1) = FileEmail(io.file, 3)
    /\ FileEmail(io.file, 1) # FileEmail(io.file, 2)
    /\ Len(io.file.columns) = 2
    /\ io.res.rows = SubSeq(io.file.rows, 1, 2)
    /\ io.report.duplicate_count = 1

(***************************************************************************)
(* One call of an email validator on a string over a small alphabet.       *)
(***************************************************************************)
StrChars == {"a", "@", ".", "\n"}
StrPool == SeqsUpTo(StrChars, MaxStr) \cup {Blank, Bang, E1 \o <<" ">>}

InitValidate ==
    /\ SessionIdle
    /\ io \in {[op |-> "validate", fn |-> "validate_email", arg |-> a,
                 done |-> FALSE, res |-> FALSE] : a \in StrPool \cup {NaN}}
           \cup
           {[op |-> "validate", fn |-> "_is_valid_email", arg |-> a,
             done |-> FALSE, res |-> FALSE] : a \in StrPool}

\* utils.validate_email is called.
ValidateEmailCall ==
    /\ io.op = "validate" /\ io.fn = "validate_email" /\ ~io.done
    /\ io' = [io EXCEPT !.done = TRUE, !.res = validate_email(io.arg)]
    /\ UNCHANGED <<Session, pc, idx, History>>

\* EmailSender._is_valid_email is called.
IsValidEmailCall ==
    /\ io.op = "validate" /\ io.fn = "_is_valid_email" /\ ~io.done
    /\ io' = [io EXCEPT !.done = TRUE, !.res = is_valid_email(io.arg)]
    /\ UNCHANGED <<Session, pc, idx, History>>

NextValidate == ValidateEmailCall \/ IsValidEmailCall

SpecValidate == InitValidate /\ [][NextValidate]_vars

\* C13: an email validator returns true exactly for the strings that are,
\* as a whole, local-part@domain.tld over the three character classes; a
\* string that ends with a line break or a space is not one of them.
C13_ValidatorMatchesWholeString ==
    (io.op = "validate" /\ io.done) => (io.res <=> SyntaxRule(io.arg))

\* The candidates of a line-oriented file, as the specification describes
\* them: the tokens between runs of separators of every line that has a
\* separator, the whole line otherwise, without surrounding blanks.
NonEmpty(seq) == Select(seq, [k \in 1..Len(seq) |-> seq[k] # EmptyStr])

Stripped(seq) == [k \in 1..Len(seq) |-> strip(seq[k])]

LineCandidates(line) ==
    IF \E k \in 1..Len(line) : line[k] \in {",", ";", "\t"}
    THEN NonEmpty(Stripped(split(line, {",", ";", "\t"})))
    ELSE NonEmpty(<<strip(line)>>)

Candidates(content) ==
    LET lines == split(content, {"\n"})
    IN Flatten([k \in 1..Len(lines) |-> LineCandidates(lines[k])])

ValidCandidates(content) ==
    LET c == Candidates(content)
    IN Select(c, [k \in 1..Len(c) |-> SyntaxRule(c[k])])

\* The first occurrence of every element of seq, in order.
FirstOccurrences(seq) ==
    Select(seq, [k \in 1..Len(seq) |-> \A m \in 1..(k - 1) : seq[m] # seq[k]])

AsEmailRows(seq) == [k \in 1..Len(seq) |-> <<seq[k]>>]

IsTextFile(f) == f.ext = "txt" /\ f.readable

EmailLikeColumns(f) ==
    {k \in 1..Len(f.columns) : column_mapping(strip(f.columns[k])) = c_email}

\* The three failures of ingestion that the specification names.
UnknownExtension(f) == f.ext \notin {"csv", "CSV", "xlsx", "xls", "txt"}

Undecodable(f) == ~f.readable

NoEmailColumn(f) == f.ext # "txt" /\ EmailLikeColumns(f) = {}

\* C15: ingestion fails, and stores no batch, exactly for a file with an
\* unknown extension, an undecodable content or no email column; a readable
\* table with exactly one email-like column is always ingested.
C15_IngestionFailsExactlyWhen ==
    (io.op = "ingest" /\ io.done) =>
        /\ ~io.res.loaded <=>
               (UnknownExtension(io.file) \/ Undecodable(io.file) \/ NoEmailColumn(io.file))
        /\ (/\ io.file.ext \in {"csv", "CSV", "xlsx", "xls"}
            /\ io.file.readable
            /\ Cardinality(EmailLikeColumns(io.file)) = 1) => io.res.loaded

(***************************************************************************)
(* Rendering (prepare_email_content of both backends).  A text is a tuple  *)
(* of tokens: the two braces pairs, a key name, or a piece of plain text;  *)
(* the placeholder of a key is the three tokens of "{{key}}".              *)
(***************************************************************************)
Placeholder(key) == <<"{{", key, "}}">>

\* Python's None, for an attribute that holds a string once it is set.
None == <<"None">>

\* str.replace(old, new): the occurrences of old, from the left and without
\* overlap, become new; new itself is not searched again.
RECURSIVE str_replace(_, _, _)
str_replace(s, old, new) ==
    IF Len(s) < Len(old) THEN s
    ELSE IF SubSeq(s, 1, Len(old)) = old
         THEN new \o str_replace(SubSeq(s, Len(old) + 1, Len(s)), old, new)
         ELSE <<Head(s)>> \o str_replace(Tail(s), old, new)

\* replacements[key] = value on a dict kept as the tuple of its items in
\* insertion order: a key already present keeps its place.
DictSet(d, key, value) ==
    IF \E k \in 1..Len(d) : d[k].key = key
    THEN [k \in 1..Len(d) |-> IF d[k].key = key THEN [key |-> key, value |-> value]
                                                 ELSE d[k]]
    ELSE Append(d, [key |-> key, value |-> value])

\* email_sender.py 86-90, gmail_sender.py 345-349: the contact's items,
\* NaN as the empty string.
ContactReplacements(contact) ==
    [k \in 1..Len(contact) |->
        [key |-> contact[k].key,
         value |-> IF isna(contact[k].value) THEN EmptyStr ELSE contact[k].value]]

\* email_sender.py 82-94
EmailSender_replacements(sender, contact) ==
    DictSet(DictSet(ContactReplacements(contact), "sender_name", sender.sender_name),
            "sender_email", sender.sender_email)

GmailSender_replacements_withSenderName(sender, contact) ==
    DictSet(DictSet(ContactReplacements(contact), "sender_name", sender.sender_name),
            "sender_email",
            IF sender.sender_email = None THEN EmptyStr ELSE sender.sender_email)

\* gmail_sender.py 341-352: sender_email is None until the profile is read.
GmailSender_replacements(sender, contact) ==
    DictSet(ContactReplacements(contact), "sender_email",
            IF sender.sender_email = None THEN EmptyStr ELSE sender.sender_email)

\* The loop "for key, value in replacements.items(): replace" on one text.
RECURSIVE ReplaceAll(_, _)
ReplaceAll(text, replacements) ==
    IF replacements = <<>> THEN text
    ELSE ReplaceAll(str_replace(text, Placeholder(Head(replacements).key),
                                Head(replacements).value),
                    Tail(replacements))

\* EmailSender.prepare_email_content
EmailSender_prepare_email_content(sender, subject_template, content_template, contact) ==
    LET replacements == EmailSender_replacements(sender, contact)
    IN [subject |-> ReplaceAll(subject_template, replacements),
        content |-> ReplaceAll(content_template, replacements)]

\* GmailSender.prepare_email_content
GmailSender_prepare_email_content(sender, subject_template, content_template, contact) ==
    LET replacements == GmailSender_replacements(sender, contact)
    IN [subject |-> ReplaceAll(subject_template, replacements),
        content |-> ReplaceAll(content_template, replacements)]

(***************************************************************************)
(* One call of prepare_email_content on templates made of a few pieces.    *)
(***************************************************************************)
TplPieces == {<<"x">>, <<"{{">>, Placeholder("nom"), Placeholder("prenom"),
              Placeholder("sender_name"), Placeholder("Nom")}

ExampleSubject == <<"Hello ">> \o Placeholder("nom")
ExampleBody == <<"Dear ">> \o Placeholder("nom") \o <<", from ">>
                   \o Placeholder("sender_name")

SubjectPool == {ExampleSubject, Placeholder("sender_email"), Placeholder("Prenom")}
BodyPool == {Flatten(ps) : ps \in SeqsUpTo(TplPieces, MaxTpl)} \cup {ExampleBody}

Item(k, v) == [key |-> k, value |-> v]

\* Rows of the contact frame as the items of contact.to_dict(), in column
\* order.
ContactPool ==
    {<<Item("nom", <<"Durand">>)>>,
     <<Item("nom", NaN)>>,
     <<Item("nom", <<"Durand">>), Item("prenom", <<"Anne">>)>>,
     <<Item("nom", Placeholder("prenom")), Item("prenom", <<"Anne">>)>>,
     <<Item("prenom", <<"Anne">>), Item("nom", Placeholder("prenom"))>>,
     <<Item("nom", NaN), Item("prenom", Placeholder("nom"))>>}

RenderSenders ==
    {[backend |-> "SMTP", sender_name |-> n, sender_email |-> <<"s@a.aa">>] :
        n \in {<<"Alice">>, EmptyStr}}
    \cup
    {[backend |-> "Gmail API", sender_name |-> <<"Alice">>, sender_email |-> e] :
        e \in {None, <<"s@a.aa">>}}

NoRender == [subject |-> <<>>, content |-> <<>>]

InitRender ==
    /\ SessionIdle
    /\ io \in {[op |-> "render", sender |-> sd, contact |-> c, subject |-> sb,
                 content |-> b, done |-> FALSE, res |-> NoRender] :
                   sd \in RenderSenders, c \in ContactPool,
                   sb \in SubjectPool, b \in BodyPool}

\* EmailSender.prepare_email_content is called.
SmtpRenderCall ==
    /\ io.op = "render" /\ io.sender.backend = "SMTP" /\ ~io.done
    /\ io' = [io EXCEPT !.done = TRUE,
                        !.res = EmailSender_prepare_email_content(
                                    io.sender, io.subject, io.content, io.contact)]
    /\ UNCHANGED <<Session, pc, idx, History>>

\* GmailSender.prepare_email_content is called.
GmailRenderCall ==
    /\ io.op = "render" /\ io.sender.backend = "Gmail API" /\ ~io.done
    /\ io' = [io EXCEPT !.done = TRUE,
                        !.res = GmailSender_prepare_email_content(
                                    io.sender, io.subject, io.content, io.contact)]
    /\ UNCHANGED <<Session, pc, idx, History>>

NextRender == SmtpRenderCall \/ GmailRenderCall

SpecRender == InitRender /\ [][NextRender]_vars

(***************************************************************************)
(* Properties of rendering.                                                *)
(***************************************************************************)
\* The replacement mapping of the specification for the direct-protocol
\* backend: the contact's fields, a missing value as the empty string,
\* united with sender_name and sender_email.
ContactKeys(contact) == {contact[k].key : k \in 1..Len(contact)}

ContactValue(contact, key) ==
    LET v == contact[CHOOSE k \in 1..Len(contact) : contact[k].key = key].value
    IN IF isna(v) THEN EmptyStr ELSE v

SmtpMapping(sender, contact) ==
    [key \in ContactKeys(contact) \cup {"sender_name", "sender_email"} |->
        CASE key = "sender_name" -> sender.sender_name
          [] key = "sender_email" -> sender.sender_email
          [] OTHER -> ContactValue(contact, key)]

\* The text in which every occurrence of {{key}}, for the keys of the
\* mapping, is replaced by the value of key.
RECURSIVE Substitute(_, _)
Substitute(text, mapping) ==
    IF text = <<>> THEN <<>>
    ELSE IF /\ Len(text) >= 3
            /\ text[1] = "{{" /\ text[3] = "}}"
            /\ text[2] \in DOMAIN mapping
         THEN mapping[text[2]] \o Substitute(SubSeq(text, 4, Len(text)), mapping)
         ELSE <<Head(text)>> \o Substitute(Tail(text), mapping)

\* C16: the direct-protocol backend renders the subject and the body by
\* replacing every occurrence of {{key}} by the value of key, for the keys
\* of the contact and for sender_name and sender_email, a missing value
\* being the empty string.
C16_SmtpRenderReplacesEveryKey ==
    (io.op = "render" /\ io.done /\ io.sender.backend = "SMTP") =>
        LET mapping == SmtpMapping(io.sender, io.contact) IN
        /\ io.res.subject = Substitute(io.subject, mapping)
        /\ io.res.content = Substitute(io.content, mapping)

\* The keys of the replacement mapping of the call under study.
MappingKeys ==
    ContactKeys(io.contact) \cup
        (IF io.sender.backend = "SMTP" THEN {"sender_name", "sender_email"}
                                       ELSE {"sender_email"})

\* The keys whose placeholder occurs in the text.
PlaceholderKeys(text) ==
    {text[k + 1] : k \in {m \in 1..(Len(text) - 2) :
                             text[m] = "{{" /\ text[m + 2] = "}}"}}

Occurrences(text, pat) ==
    Cardinality({k \in 1..(Len(text) - Len(pat) + 1) :
                    SubSeq(text, k, k + Len(pat) - 1) = pat})

Verbatim(template, rendered) ==
    \A key \in PlaceholderKeys(template) \ MappingKeys :
        Occurrences(rendered, Placeholder(key)) >= Occurrences(template, Placeholder(key))

\* C17: rendering returns, and every placeholder whose key is not in the
\* replacement mapping (compared case-sensitively) is in the rendered
\* subject and body as it was in the template; with the provider-API
\* backend sender_name is such a key.
C17_UnknownPlaceholdersVerbatim ==
    (io.op = "render" /\ io.done) =>
        /\ Verbatim(io.subject, io.res.subject)
        /\ Verbatim(io.content, io.res.content)

\* The provider-API backend rendered a body with {{sender_name}} and
\* {{Nom}}, replaced {{nom}} in it and left the other two as they were.
C17_Witness ==
    /\ io.op = "render" /\ io.done /\ io.sender.backend = "Gmail API"
    /\ io.content = Placeholder("nom") \o Placeholder("sender_name") \o Placeholder("Nom")
    /\ io.contact = <<Item("nom", <<"Durand">>)>>
    /\ io.res.content = <<"Durand">> \o Placeholder("sender_name") \o Placeholder("Nom")

\* The replacements of the call under study, in the order of the code.
CallReplacements ==
    IF io.sender.backend = "SMTP" THEN EmailSender_replacements(io.sender, io.contact)
    ELSE GmailSender_replacements(io.sender, io.contact)

Reordered(seq, p) == [k \in 1..Len(seq) |-> seq[p[k]]]

\* C18: the rendered subject and body are the same in whatever order the
\* keys of the replacement mapping are processed.
C18_RenderOrderIndependent ==
    (io.op = "render" /\ io.done) =>
        \A p \in Permutations(1..Len(CallReplacements)) :
            /\ ReplaceAll(io.subject, Reordered(CallReplacements, p)) = io.res.subject
            /\ ReplaceAll(io.content, Reordered(CallReplacements, p)) = io.res.content

(***************************************************************************)
(* Connection tests of the two backends, and the specification of one call *)
(* of a backend: a send or a connection test.                              *)
(***************************************************************************)
SmtpTestOutcomes == {"ok", "connect_error", "starttls_error", "auth_error",
                     "disconnected", "quit_error"}
GmailTestOutcomes == {"ok", "empty_result", "insufficientPermissions",
                      "insufficient authentication scopes", "api_error"}

\* EmailSender.test_connection (email_sender.py 41-67): every exception of
\* the connection, the upgrade, the login or quit() gives False.
EmailSender_test_connection(sender, t) ==
    CASE t = "connect_error" ->
            [ret |-> FALSE, raised |-> FALSE, opened |-> 0, handed |-> 0, closed |-> 0]
      [] t \in {"starttls_error", "auth_error", "disconnected", "quit_error"} ->
            [ret |-> FALSE, raised |-> FALSE, opened |-> 1, handed |-> 0, closed |-> 0]
      [] OTHER ->
            [ret |-> TRUE, raised |-> FALSE, opened |-> 1, handed |-> 0, closed |-> 1]

\* GmailSender.test_connection (gmail_sender.py 280-326): the labels call
\* decides; an error whose text holds "insufficientPermissions" gives True.
\* After a successful labels call a missing sender_email is read from the
\* profile, and stays as it is when that call fails.
GmailSender_test_connection(g, t, profile) ==
    LET unset == g.sender_email = None \/ g.sender_email = <<"authenticated@gmail.com">>
        base == [ret |-> FALSE, raised |-> FALSE, opened |-> 0, handed |-> 0,
                 closed |-> 0, sender_email |-> g.sender_email]
    IN IF ~g.service THEN base
       ELSE CASE t = "ok" ->
                    [base EXCEPT !.ret = TRUE, !.opened = 1, !.closed = 1,
                                 !.sender_email = IF unset /\ profile = "ok"
                                                  THEN <<"s@a.aa">>
                                                  ELSE g.sender_email]
              [] t = "insufficientPermissions" ->
                    [base EXCEPT !.ret = TRUE, !.opened = 1, !.closed = 1]
              [] OTHER ->
                    [base EXCEPT !.opened = 1, !.closed = 1]

TestCalls ==
    {[op |-> "test", backend |-> "SMTP", email |-> EmptyStr, t |-> t, done |-> FALSE,
      sender |-> sd, res |-> NoResult] :
        t \in SmtpTestOutcomes,
        sd \in [exists : {TRUE}, password_ok : BOOLEAN,
                security : {"STARTTLS", "SSL", "Aucune"}]}
    \cup
    {[op |-> "test", backend |-> "Gmail API", email |-> EmptyStr, t |-> t,
      profile |-> pr, done |-> FALSE, sender |-> sd, res |-> NoResult] :
        t \in GmailTestOutcomes, pr \in {"ok", "error"},
        sd \in [exists : {TRUE}, service : BOOLEAN, flow : {FALSE},
                sender_email : {None, <<"authenticated@gmail.com">>, <<"s@a.aa">>}]}

InitBackend ==
    /\ SessionIdle
    /\ io \in {c \in SendCalls \cup TestCalls :
                  c.backend = "SMTP" => c.t \in SmtpAnswers(c.sender)}

\* EmailSender.test_connection is called.
SmtpTestCall ==
    /\ io.op = "test" /\ io.backend = "SMTP" /\ ~io.done
    /\ io' = [io EXCEPT !.done = TRUE,
                        !.res = EmailSender_test_connection(io.sender, io.t)]
    /\ UNCHANGED <<Session, pc, idx, History>>

\* GmailSender.test_connection is called.
GmailTestCall ==
    /\ io.op = "test" /\ io.backend = "Gmail API" /\ ~io.done
    /\ io' = [io EXCEPT !.done = TRUE,
                        !.res = GmailSender_test_connection(io.sender, io.t, io.profile)]
    /\ UNCHANGED <<Session, pc, idx, History>>

NextBackend == SmtpSendCall \/ GmailSendCall \/ SmtpTestCall \/ GmailTestCall

SpecBackend == InitBackend /\ [][NextBackend]_vars

\* The failures of a connection test: no connection, a refused upgrade or
\* login, a lost connection, a permission or other API error, an empty
\* answer, a session that was never initialised.
TestFailed ==
    \/ io.t # "ok"
    \/ io.backend = "Gmail API" /\ ~io.sender.service

\* C19: a connection test of either backend raises nothing, returns false
\* on every failure to establish or use the authenticated channel, and
\* returns true only when the channel was established.
C19_TestConnectionFailsSoft ==
    (io.op = "test" /\ io.done) =>
        /\ ~io.res.raised
        /\ TestFailed => ~io.res.ret
        /\ io.res.ret => (io.t = "ok" /\ io.res.opened = 1)

\* C20: a send or a connection test of the direct-protocol backend that
\* reaches the transport opens one connection and has closed it when it
\* returns, on the success path and on every failure path.
C20_SmtpConnectionClosed ==
    (io.op \in {"send", "test"} /\ io.done /\ io.backend = "SMTP") =>
        /\ io.res.opened <= 1
        /\ io.res.closed = io.res.opened

(***************************************************************************)
(* Message construction (create_email_message, create_message).  A message *)
(* is the record of its headers and of its structure; a header that is not *)
(* set is Absent.                                                          *)
(***************************************************************************)
Absent == <<"Absent">>

\* EmailSender.__init__ (email_sender.py 28-35): an empty reply-to address
\* becomes the sender address.
EmailSender_init(sender_email, sender_name, reply_to_email) ==
    [sender_email |-> sender_email, sender_name |-> sender_name,
     reply_to_email |-> IF reply_to_email # EmptyStr THEN reply_to_email
                        ELSE sender_email]

\* formataddr((name, address)) and the f-string of gmail_sender.py 392, for
\* a display name of plain letters.
formataddr(name, address) == name \o <<" <">> \o address \o <<">">>

\* EmailSender.create_email_message (email_sender.py 108-154)
EmailSender_create_email_message(sender, recipient_email, subject, is_html, attachments) ==
    [From |-> IF sender.sender_name # EmptyStr
              THEN formataddr(sender.sender_name, sender.sender_email)
              ELSE sender.sender_email,
     To |-> recipient_email,
     Subject |-> subject,
     ReplyTo |-> sender.reply_to_email,
     multipart |-> TRUE,
     subtype |-> IF is_html THEN "html" ELSE "plain",
     parts |-> IF attachments THEN 2 ELSE 1]

\* GmailSender.create_message (gmail_sender.py 366-407)
GmailSender_create_message(sender, to, subject, is_html, attachments) ==
    [From |-> IF sender.sender_name # EmptyStr
              THEN formataddr(sender.sender_name, sender.sender_email)
              ELSE sender.sender_email,
     To |-> to,
     Subject |-> subject,
     ReplyTo |-> Absent,
     multipart |-> is_html \/ attachments,
     subtype |-> IF is_html THEN "html" ELSE "plain",
     parts |-> IF attachments THEN 2 ELSE 1]

NoMessage == [From |-> Absent, To |-> Absent, Subject |-> Absent, ReplyTo |-> Absent,
              multipart |-> FALSE, subtype |-> "plain", parts |-> 0]

MessageCalls ==
    {[op |-> "message", backend |-> b, sender_name |-> n,
      sender_email |-> <<"s@a.aa">>, reply_to_email |-> r, to |-> t,
      subject |-> sb, is_html |-> h, attachments |-> a, done |-> FALSE,
      res |-> NoMessage] :
        b \in {"SMTP", "Gmail API"}, n \in {EmptyStr, <<"Alice">>},
        r \in {EmptyStr, <<"r@a.aa">>}, t \in {E1, E2},
        sb \in {EmptyStr, <<"Hello ", "Durand">>}, h \in BOOLEAN, a \in BOOLEAN}

InitMessage ==
    /\ SessionIdle
    /\ io \in {c \in MessageCalls :
                  c.backend = "Gmail API" => c.reply_to_email = EmptyStr}

\* EmailSender(...).create_email_message is called.
SmtpMessageCall ==
    /\ io.op = "message" /\ io.backend = "SMTP" /\ ~io.done
    /\ io' = [io EXCEPT !.done = TRUE,
                        !.res = EmailSender_create_email_message(
                                    EmailSender_init(io.sender_email, io.sender_name,
                                                     io.reply_to_email),
                                    io.to, io.subject, io.is_html, io.attachments)]
    /\ UNCHANGED <<Session, pc, idx, History>>

\* GmailSender.create_message is called; this sender has no reply-to setting.
GmailMessageCall ==
    /\ io.op = "message" /\ io.backend = "Gmail API" /\ ~io.done
    /\ io' = [io EXCEPT !.done = TRUE,
                        !.res = GmailSender_create_message(
                                    [sender_name |-> io.sender_name,
                                     sender_email |-> io.sender_email],
                                    io.to, io.subject, io.is_html, io.attachments)]
    /\ UNCHANGED <<Session, pc, idx, History>>

NextMessage == SmtpMessageCall \/ GmailMessageCall

SpecMessage == InitMessage /\ [][NextMessage]_vars

\* C21: a message built by either backend has the From header "name
\* <address>" when a display name is configured and the bare address
\* otherwise, the To header of the recipient, the rendered Subject, and a
\* Reply-To header with the configured reply-to address, or else with the
\* sender address.
C21_MessageHeaders ==
    (io.op = "message" /\ io.done) =>
        /\ io.res.From = IF io.sender_name # EmptyStr
                         THEN io.sender_name \o <<" <">> \o io.sender_email \o <<">">>
                         ELSE io.sender_email
        /\ io.res.To = io.to
        /\ io.res.Subject = io.subject
        /\ io.res.ReplyTo = IF io.reply_to_email # EmptyStr THEN io.reply_to_email
                            ELSE io.sender_email

(***************************************************************************)
(* The handlers that can refuse: the upload and the run start, on a        *)
(* session that already holds a batch and the marks of a finished run.     *)
(***************************************************************************)
\* What one finished run over the single record E1 leaves in the status and
\* in the log (app.py 661-696), and the fresh session (app.py 79-93).
PastRuns ==
    {[status |-> [active |-> FALSE, progress |-> 0, total |-> 0, success |-> 0,
                  errors |-> <<>>],
      logs |-> <<>>]}
    \cup
    {[status |-> [active |-> FALSE, progress |-> 1, total |-> 1,
                  success |-> IF s = "Succès" THEN 1 ELSE 0,
                  errors |-> IF s = "Succès" THEN <<>> ELSE <<E1>>],
      logs |-> <<LogEntry(E1, s, "12:00:00",
                          IF s = "Succès" THEN ""
                          ELSE IF s = "Échec" THEN "Erreur d'envoi" ELSE "timeout")>>] :
         s \in {"Succès", "Échec", "Erreur"}}

HandlerCalls ==
    {[op |-> "upload", file |-> f, done |-> FALSE, refused |-> FALSE] :
         f \in SessionFiles}
    \cup
    {[op |-> "start", filled |-> fl, creds |-> c, done |-> FALSE, refused |-> FALSE] :
         fl \in BOOLEAN, c \in {"missing", "wrong", "right"}}

Accumulated == <<contacts_df, sending_status, send_logs>>

InitHandler ==
    /\ contacts_df \in UploadResults
    /\ \E r \in PastRuns : sending_status = r.status /\ send_logs = r.logs
    /\ send_method = "SMTP"
    /\ email_sender = NoEmailSender
    /\ gmail_sender = NoGmailSender
    /\ auth_url = FALSE
    /\ pc = "idle"
    /\ idx = 0
    /\ tracked = FALSE
    /\ attempts = <<>>
    /\ stopped = NoStop
    /\ log_base = 0
    /\ \E c \in HandlerCalls : io = c @@ [before |-> Accumulated]

\* app.py 451-470 on the file of the call.
UploadCall ==
    /\ io.op = "upload" /\ ~io.done
    /\ pc = "idle"
    /\ UploadFile(upload_result(io.file))
    /\ io' = [io EXCEPT !.done = TRUE, !.refused = ~upload_result(io.file).loaded]
    /\ UNCHANGED History

\* app.py 592-633 and 703-707: the start button exists only when the
\* session is ready; otherwise the script shows a warning and goes on.
StartCall ==
    /\ io.op = "start" /\ ~io.done
    /\ pc = "idle"
    /\ IF ready_to_send(io.filled, io.creds) /\ ~sending_status.active
       THEN StartRun(io.filled, io.creds, "STARTTLS")
       ELSE UNCHANGED <<Session, pc, idx, History>>
    /\ io' = [io EXCEPT !.done = TRUE,
                        !.refused = ~(ready_to_send(io.filled, io.creds)
                                      /\ ~sending_status.active)]

NextHandler == UploadCall \/ StartCall

SpecHandler == InitHandler /\ [][NextHandler]_vars

\* C22: an upload that fails, or a run start that is refused, leaves the send
\* log, the status counters with the error list, and the loaded batch as
\* they were before the call.
C22_FatalErrorKeepsState ==
    (io.op \in {"upload", "start"} /\ io.done /\ io.refused) =>
        /\ send_logs = io.before[3]
        /\ sending_status = io.before[2]
        /\ contacts_df = io.before[1]

\* A file without an address column was refused while a batch was loaded
\* and a run had left an entry in the log.
C22_Witness ==
    /\ io.op = "upload" /\ io.done /\ io.refused
    /\ io.before[1].loaded
    /\ io.before[3] # <<>>

(***************************************************************************)
(* Properties of the session's log and counters.                           *)
(***************************************************************************)
\* C23: every step leaves the send log as it is, appends one entry at its
\* end, or clears it as a whole; the step that starts a run leaves it as
\* it is.
C23_LogAppendedOrCleared ==
    [][/\ \/ send_logs' = send_logs
          \/ /\ Len(send_logs') = Len(send_logs) + 1
             /\ SubSeq(send_logs', 1, Len(send_logs)) = send_logs
          \/ send_logs' = <<>>
       /\ (pc = "idle" /\ pc' = "check") => send_logs' = send_logs]_vars

\* A later run has appended an entry behind the entries of an earlier run.
C23_Witness ==
    /\ tracked
    /\ log_base > 0
    /\ Len(send_logs) > log_base

(***************************************************************************)
(* The export of the log (utils.py export_logs_to_csv, app.py 741-778).    *)
(* A text is a tuple of tokens; the comma, the double quote and the line   *)
(* feed are tokens of their own.                                           *)
(***************************************************************************)
LogColumns == <<<<"email">>, <<"status">>, <<"timestamp">>, <<"error">>>>

\* csv.writer with QUOTE_MINIMAL, which DataFrame.to_csv uses: a value that
\* holds a delimiter, a quote or a line break is quoted, its quotes doubled.
csv_field(v) ==
    IF \E k \in 1..Len(v) : v[k] \in {",", "\"", "\n", "\r"}
    THEN <<"\"">>
         \o Flatten([k \in 1..Len(v) |-> IF v[k] = "\"" THEN <<"\"", "\"">> ELSE <<v[k]>>])
         \o <<"\"">>
    ELSE v

csv_row(values) ==
    Flatten([k \in 1..Len(values) |->
                 IF k = 1 THEN csv_field(values[k])
                 ELSE <<",">> \o csv_field(values[k])])
    \o <<"\n">>

LogValues(entry) == <<entry.email, entry.status, entry.timestamp, entry.error>>

\* pd.DataFrame(logs).to_csv(index=False): the header line with the keys of
\* the entries, then one line per entry, in order.
DataFrame_to_csv(logs) ==
    csv_row(LogColumns) \o Flatten([k \in 1..Len(logs) |-> csv_row(LogValues(logs[k]))])

\* utils.py 285-299
export_logs_to_csv(logs) ==
    IF logs = <<>> THEN csv_row(LogColumns) ELSE DataFrame_to_csv(logs)

\* app.py 744-755: the status filter of the log view.
filtered_logs(logs, status_filter) ==
    IF status_filter # "Tous"
    THEN Select(logs, [k \in 1..Len(logs) |-> logs[k].status = <<status_filter>>])
    ELSE logs

\* app.py 771-778: the download button exports what the view shows.
download_logs(logs, status_filter) == DataFrame_to_csv(filtered_logs(logs, status_filter))

\* Reading a delimited table back: fields end at a comma, records at a line
\* feed, both outside quotes; a doubled quote inside quotes is one quote.
RECURSIVE csv_read(_, _, _, _, _, _)
csv_read(text, k, quoted, field, row, rows) ==
    IF k > Len(text)
    THEN IF field = <<>> /\ row = <<>> THEN rows ELSE Append(rows, Append(row, field))
    ELSE IF quoted
         THEN IF text[k] = "\""
              THEN IF k < Len(text) /\ text[k + 1] = "\""
                   THEN csv_read(text, k + 2, TRUE, Append(field, "\""), row, rows)
                   ELSE csv_read(text, k + 1, FALSE, field, row, rows)
              ELSE csv_read(text, k + 1, TRUE, Append(field, text[k]), row, rows)
         ELSE IF text[k] = "\"" THEN csv_read(text, k + 1, TRUE, field, row, rows)
         ELSE IF text[k] = "," THEN csv_read(text, k + 1, FALSE, <<>>, Append(row, field), rows)
         ELSE IF text[k] = "\n"
              THEN csv_read(text, k + 1, FALSE, <<>>, <<>>, Append(rows, Append(row, field)))
         ELSE csv_read(text, k + 1, FALSE, Append(field, text[k]), row, rows)

\* The records behind the header line, as log entries.
csv_parse(text) ==
    LET rows == csv_read(text, 1, FALSE, <<>>, <<>>, <<>>)
    IN [k \in 1..(Len(rows) - 1) |->
            [email |-> rows[k + 1][1], status |-> rows[k + 1][2],
             timestamp |-> rows[k + 1][3], error |-> rows[k + 1][4]]]

\* The entries the loop writes (app.py 661-688); str(e) is any text.
ErrorDetails ==
    {<<>>, <<"timeout", ",", "retry">>, <<"\"", "x", "\"">>, <<"line1", "\n", "line2">>}

ExportEntries ==
    {[email |-> E1, status |-> <<"Succès">>, timestamp |-> <<"12:00:00">>, error |-> <<>>],
     [email |-> E1, status |-> <<"Échec">>, timestamp |-> <<"12:00:00">>,
      error |-> <<"Erreur d'envoi">>]}
    \cup {[email |-> E1, status |-> <<"Erreur">>, timestamp |-> <<"12:00:00">>, error |-> e] :
              e \in ErrorDetails}

ExportCalls ==
    {[op |-> "export", by |-> "export_logs_to_csv", status_filter |-> "Tous",
      logs |-> l, done |-> FALSE, csv |-> <<>>] : l \in SeqsUpTo(ExportEntries, MaxLog)}
    \cup
    {[op |-> "export", by |-> "download", status_filter |-> f,
      logs |-> l, done |-> FALSE, csv |-> <<>>] :
         l \in SeqsUpTo(ExportEntries, MaxLog) \ {<<>>},
         f \in {"Tous", "Succès", "Échec", "Erreur"}}

InitExport ==
    /\ SessionIdle
    /\ io \in ExportCalls

ExportLogsCall ==
    /\ io.op = "export" /\ io.by = "export_logs_to_csv" /\ ~io.done
    /\ io' = [io EXCEPT !.done = TRUE, !.csv = export_logs_to_csv(io.logs)]
    /\ UNCHANGED <<Session, pc, idx, History>>

DownloadCall ==
    /\ io.op = "export" /\ io.by = "download" /\ ~io.done
    /\ io' = [io EXCEPT !.done = TRUE, !.csv = download_logs(io.logs, io.status_filter)]
    /\ UNCHANGED <<Session, pc, idx, History>>

NextExport == ExportLogsCall \/ DownloadCall

SpecExport == InitExport /\ [][NextExport]_vars

\* C24: the exported table has the columns email, status, timestamp, error
\* and, read back, gives the entries of the log, all of them and in order,
\* empty error details and the empty log included.
C24_ExportRoundTrip ==
    (io.op = "export" /\ io.done) =>
        /\ csv_read(io.csv, 1, FALSE, <<>>, <<>>, <<>>)[1] = LogColumns
        /\ csv_parse(io.csv) = io.logs

(***************************************************************************)
(* EmailSender.send_bulk_emails (email_sender.py 232-282).  outs[k] is     *)
(* what self.send_email does for record k: it returns true or false, or    *)
(* an exception leaves it and the except branch of the loop is taken.      *)
(***************************************************************************)
SendResults == {"true", "false", "raise"}

\* Mutant: a record whose send raised is not counted as failed.
bulk_record_raiseNotCounted(df, out, delay, k, acc) ==
    LET email == contact_get_email(df, df.rows[k])
        slept == IF delay > 0 THEN acc.sleeps + 1 ELSE acc.sleeps
    IN CASE out = "true" ->
              [acc EXCEPT !.results.success = @ + 1, !.sleeps = slept]
         [] out = "false" ->
              [acc EXCEPT !.results.failed = @ + 1,
                          !.results.errors =
                              Append(@, [email |-> email, error |-> "Failed to send email"]),
                          !.sleeps = slept]
         [] OTHER ->
              [acc EXCEPT !.results.errors = Append(@, [email |-> email, error |-> "timeout"])]

\* email_sender.py 258-280: one iteration.  time.sleep is inside the try
\* block, behind the bookkeeping of a send that returned.
bulk_record(df, out, delay, k, acc) ==
    LET email == contact_get_email(df, df.rows[k])
        slept == IF delay > 0 THEN acc.sleeps + 1 ELSE acc.sleeps
    IN CASE out = "true" ->
              [acc EXCEPT !.results.success = @ + 1, !.sleeps = slept]
         [] out = "false" ->
              [acc EXCEPT !.results.failed = @ + 1,
                          !.results.errors =
                              Append(@, [email |-> email, error |-> "Failed to send email"]),
                          !.sleeps = slept]
         [] OTHER ->
              [acc EXCEPT !.results.failed = @ + 1,
                          !.results.errors =
                              Append(@, [email |-> email, error |-> "timeout"])]

RECURSIVE bulk_loop(_, _, _, _, _)
bulk_loop(df, outs, delay, k, acc) ==
    IF k > Len(df.rows) THEN acc
    ELSE bulk_loop(df, outs, delay, k + 1, bulk_record(df, outs[k], delay, k, acc))

\* results is the dictionary returned; sleeps counts the calls of time.sleep.
send_bulk_emails(df, outs, delay) ==
    bulk_loop(df, outs, delay, 1,
              [results |-> [total |-> Len(df.rows), success |-> 0, failed |-> 0,
                            errors |-> <<>>],
               sleeps |-> 0])

Delays == {0, 1}

BulkCalls ==
    {[op |-> "bulk", df |-> f, outs |-> o, delay |-> d, done |-> FALSE,
      res |-> send_bulk_emails(NoFrame, <<>>, 0)] :
         f \in {u \in UploadResults : u.loaded},
         o \in SeqsUpTo(SendResults, MaxRows), d \in Delays}

InitBulk ==
    /\ SessionIdle
    /\ io \in {c \in BulkCalls : Len(c.outs) = Len(c.df.rows)}

BulkCall ==
    /\ io.op = "bulk" /\ ~io.done
    /\ io' = [io EXCEPT !.done = TRUE, !.res = send_bulk_emails(io.df, io.outs, io.delay)]
    /\ UNCHANGED <<Session, pc, idx, History>>

NextBulk == BulkCall

SpecBulk == InitBulk /\ [][NextBulk]_vars

BulkOfRun ==
    send_bulk_emails(contacts_df,
                     [k \in 1..Len(contacts_df.rows) |-> attempts[k].outcome], 1).results

\* C30: when a run has ended without a cancellation, send_bulk_emails on the
\* same batch with the same outcome per record returns the total, the
\* success count, the failure count and the failed addresses, in order,
\* that the loop left in the status; its total is success plus failed and
\* it has one error per failure.
C30_BulkAgreesWithLoop ==
    (tracked /\ pc = "idle" /\ ~stopped.pressed) =>
        /\ BulkOfRun.total = Len(contacts_df.rows)
        /\ BulkOfRun.total = sending_status.total
        /\ BulkOfRun.success = sending_status.success
        /\ BulkOfRun.failed = Len(sending_status.errors)
        /\ [k \in 1..Len(BulkOfRun.errors) |-> BulkOfRun.errors[k].email]
               = sending_status.errors
        /\ BulkOfRun.total = BulkOfRun.success + BulkOfRun.failed
        /\ Len(BulkOfRun.errors) = BulkOfRun.failed

\* A run of at least two records has ended without a cancellation; one send
\* succeeded, one returned false and one raised.
C30_Witness ==
    /\ tracked /\ pc = "idle" /\ ~stopped.pressed
    /\ \E k \in 1..Len(attempts) : attempts[k].outcome = "true"
    /\ \E k \in 1..Len(attempts) : attempts[k].outcome = "false"
    /\ \E k \in 1..Len(attempts) : attempts[k].outcome = "raise"

\* The step that starts a run: the loop stands before its first record with
\* a fresh, active status.  No step of a running loop looks like this, for
\* progress is at least 1 behind the first record.
RunStarts ==
    /\ pc' = "check"
    /\ idx' = 1
    /\ sending_status'.active
    /\ sending_status'.progress = 0
    /\ pc # "check"

C27_ProgressAtBoundaries ==
    [][/\ (tracked' /\ pc' \in {"check", "idle"}) =>
              /\ sending_status'.progress
                     = sending_status'.success + Len(sending_status'.errors)
              /\ sending_status'.progress = Len(send_logs') - log_base'
              /\ 0 <= sending_status'.progress
              /\ sending_status'.progress <= sending_status'.total
       /\ (tracked /\ tracked' /\ pc # "idle") =>
              sending_status'.progress >= sending_status.progress]_vars

\* A later run stands at a boundary behind a send that succeeded and a send
\* that did not.
C27_Witness ==
    /\ tracked /\ pc = "check"
    /\ log_base > 0
    /\ sending_status.success > 0
    /\ sending_status.errors # <<>>

\* C28: the step of the stop button changes the active flag and nothing else
\* of the status, and leaves the log as it is; while no loop is running the
\* status changes only by the start of a run.
C28_StopChangesActiveOnly ==
    [][/\ (~stopped.pressed /\ stopped'.pressed) =>
              /\ sending_status' = [sending_status EXCEPT !.active = FALSE]
              /\ send_logs' = send_logs
       /\ pc = "idle" => (sending_status' = sending_status \/ RunStarts)]_vars

\* Stop has just been pressed in a run that had processed a record.
C28_Witness ==
    /\ stopped.pressed /\ stopped.pc = pc /\ stopped.idx = idx
    /\ pc = "send"
    /\ ~sending_status.active
    /\ sending_status.progress > 0
    /\ send_logs # <<>>

(***************************************************************************)
(* The authentication calls on one GmailSender (gmail_sender.py 62-278),   *)
(* in any order, with what each of them returned.                          *)
(***************************************************************************)
MaxAuthCalls == 3   \* calls of start_auth_flow and complete_authentication

InitAuth ==
    /\ contacts_df \in {u \in UploadResults : u.loaded}
    /\ sending_status = [active |-> FALSE, progress |-> 0, total |-> 0,
                         success |-> 0, errors |-> <<>>]
    /\ send_logs = <<>>
    /\ send_method = "Gmail API"
    /\ email_sender = NoEmailSender
    /\ gmail_sender = NewGmailSender
    /\ auth_url = FALSE
    /\ pc = "idle"
    /\ idx = 0
    /\ tracked = FALSE
    /\ attempts = <<>>
    /\ stopped = NoStop
    /\ log_base = 0
    /\ io = [op |-> "auth", calls |-> <<>>]

StartAuthCall ==
    /\ io.op = "auth" /\ Len(io.calls) < MaxAuthCalls
    /\ \E built \in BOOLEAN, flowed \in BOOLEAN, result \in {"ALREADY", "URL", "ERROR"} :
           /\ StartAuthFlow(built, flowed, result)
           /\ io' = [io EXCEPT !.calls =
                         Append(@, [call |-> "start_auth_flow", result |-> result])]
    /\ UNCHANGED <<contacts_df, sending_status, send_logs, send_method,
                   email_sender, pc, idx, History>>

\* Without a flow the method returns false whatever the provider would say.
CompleteAuthCall ==
    /\ io.op = "auth" /\ Len(io.calls) < MaxAuthCalls
    /\ \E result \in {"true", "false", "scope_mismatch"} :
           /\ CompleteAuthentication(result)
           /\ io' = [io EXCEPT !.calls =
                         Append(@, [call |-> "complete_authentication",
                                    result |-> IF gmail_sender.flow /\ result = "true"
                                               THEN "true" ELSE "false"])]
    /\ UNCHANGED <<contacts_df, sending_status, send_logs, send_method,
                   email_sender, pc, idx, History>>

NextAuth == StartAuthCall \/ CompleteAuthCall

SpecAuth == InitAuth /\ [][NextAuth]_vars

\* C29: when the last authentication call returned an error, an
\* authorization URL or false, the service of the sender is not set, and a
\* run with the Gmail API cannot be started.
C29_ServiceOnlyAfterSuccess ==
    (io.op = "auth" /\ io.calls # <<>>
        /\ io.calls[Len(io.calls)].result \in {"ERROR", "URL", "false"}) =>
        /\ ~gmail_sender.service
        /\ ~ready_to_send(TRUE, "right")

====
